---------------------------- MODULE Spec2Model ----------------------------
(***************************************************************************)
(* Model of scripts/restore-tweets.py, the restore of the tweets table     *)
(* from the text of a SQL dump, and of scripts/restore-content.py, the     *)
(* restore of the content table from a CSV file.  A behaviour runs one of  *)
(* the two scripts, up to MaxRuns times, against one database table.       *)
(*                                                                          *)
(* Text is a sequence of one-character strings.  The SQL keywords the      *)
(* statement regex of line 27 looks for are single tokens of that          *)
(* sequence: "INSERT", "TWEETS" (for ` INTO "public"."tweets"`), "OTHER"   *)
(* (for ` INTO "public"."content"`), "VALUES", "ALTER", "CREATE", "RESET". *)
(* Python indexes from 0 and TLA+ from 1: a Python index k is the TLA+     *)
(* index k + 1, and the cursors below (end_pos, match ends) keep their     *)
(* Python values.                                                           *)
(***************************************************************************)
EXTENDS Integers, Sequences, FiniteSets, TLC


\* ------------------------------------------------------------------ bounds

\* most tuples in the VALUES list of one source blob
MaxTuples == 3
\* most data rows of one CSV file
MaxCsvRows == 3
\* most consecutive invocations of the script on the same blob and database
MaxRuns == 2
\* the longest dump, and the longest CSV file, of the runs with more failing
\* records than error messages
MaxFailingTuples == 5
MaxFailingCsvRows == 6
\* the longest dump of the runs that differ in what surrounds the statement
MaxFragmentTuples == 2
\* the longest text the scan of the payload field is run on, on its own
MaxScanLen == 7

\* ------------------------------------------------------- program constants

\* restore-tweets.py line 103: errors <= 3
ErrorSampleLimit == 3
\* restore-tweets.py line 98: inserted % 100
ProgressEvery == 100
\* restore-content.py line 122: errors <= 5
ContentErrorSampleLimit == 5
\* restore-content.py line 118: inserted % 500
ContentProgressEvery == 500

\* -------------------------------------------------------------- characters

Q == "'"
DQ == "\""
NL == "\n"
TAB == "\t"
CR == "\r"
\* what Python's \s and str.strip() treat as whitespace, within the alphabet
WS == {" ", NL, TAB, CR}
\* the whitespace of the JSON grammar (json.decoder.WHITESPACE)
JWS == {" ", NL, TAB, CR}
Digits == {"1", "2"}
\* the boundary keywords of the lookahead in line 27
Keywords == {"INSERT", "ALTER", "CREATE", "RESET"}

\* ------------------------------------------------------------ str helpers

\* s[i:] for a Python index i
From(s, i) == SubSeq(s, i + 1, Len(s))

\* s[i:j] for Python indexes i <= j
Slice(s, i, j) == SubSeq(s, i + 1, j)

StartsWith(s, c) == Len(s) > 0 /\ s[1] = c

EndsWith(s, c) == Len(s) > 0 /\ s[Len(s)] = c

RECURSIVE LStrip(_, _)
\* s.lstrip(cs)
LStrip(s, cs) ==
    IF Len(s) > 0 /\ s[1] \in cs THEN LStrip(Tail(s), cs) ELSE s

RECURSIVE RStrip(_, _)
\* s.rstrip(cs)
RStrip(s, cs) ==
    IF Len(s) > 0 /\ s[Len(s)] \in cs
    THEN RStrip(SubSeq(s, 1, Len(s) - 1), cs)
    ELSE s

\* s.strip()
Strip(s) == RStrip(LStrip(s, WS), WS)

RECURSIVE SkipWS(_, _)
\* the TLA+ index of the first non-whitespace element at or after index i
\* (Len(s) + 1 when there is none): what a greedy \s* consumes
SkipWS(s, i) ==
    IF i <= Len(s) /\ s[i] \in WS THEN SkipWS(s, i + 1) ELSE i

RECURSIVE ReplaceQQ(_)
\* s.replace("''", "'"): non-overlapping, left to right
ReplaceQQ(s) ==
    IF Len(s) = 0 THEN <<>>
    ELSE IF Len(s) >= 2 /\ s[1] = Q /\ s[2] = Q
         THEN <<Q>> \o ReplaceQQ(SubSeq(s, 3, Len(s)))
         ELSE <<s[1]>> \o ReplaceQQ(Tail(s))

Max(S) == CHOOSE x \in S : \A y \in S : y <= x

Min(S) == CHOOSE x \in S : \A y \in S : x <= y

\* ------------------------------------------------- the statement (line 27)
\* re.search(r'INSERT INTO "public"\."tweets"[^;]+VALUES\s*(.+?);
\*              (?=\s*(?:INSERT|ALTER|CREATE|RESET|$))', content, re.DOTALL)

\* the lookahead (?=\s*(?:INSERT|ALTER|CREATE|RESET|$)) at TLA+ index i
LookaheadOK(s, i) ==
    LET k == SkipWS(s, i) IN k > Len(s) \/ s[k] \in Keywords

RECURSIVE FindEnd(_, _)
\* the lazy (.+?): the first ";" at or after index e that the lookahead
\* accepts, 0 when there is none
FindEnd(s, e) ==
    IF e > Len(s) THEN 0
    ELSE IF s[e] = ";" /\ LookaheadOK(s, e + 1) THEN e
    ELSE FindEnd(s, e + 1)

\* VALUES\s*(.+?); with VALUES at index j: the greedy \s* first takes all the
\* whitespace, and gives one element back when group 1 would otherwise be empty
GroupAt(s, j) ==
    LET w == SkipWS(s, j + 1)
        e == FindEnd(s, w + 1)
    IN  IF e > 0 THEN [ok |-> TRUE, g |-> w, e |-> e]
        ELSE IF w > j + 1 /\ w <= Len(s) /\ s[w] = ";" /\ LookaheadOK(s, w + 1)
             THEN [ok |-> TRUE, g |-> w - 1, e |-> w]
             ELSE [ok |-> FALSE, g |-> 0, e |-> 0]

\* [^;]+VALUES after the header at h, h + 1: every VALUES the match can use
ValuesAt(s, h) ==
    { j \in (h + 3)..Len(s) :
        /\ s[j] = "VALUES"
        /\ \A k \in (h + 2)..(j - 1) : s[k] # ";"
        /\ GroupAt(s, j).ok }

Headers(s) ==
    { h \in 1..(Len(s) - 1) :
        s[h] = "INSERT" /\ s[h + 1] = "TWEETS" /\ ValuesAt(s, h) # {} }

\* the match object of line 27: the leftmost header, the greedy [^;]+ (the
\* last usable VALUES), and group(1) with its bounds (TLA+ indexes)
Search(s) ==
    IF Headers(s) = {}
    THEN [found |-> FALSE, group |-> <<>>, start |-> 0, stop |-> 0]
    ELSE LET h == Min(Headers(s))
             j == Max(ValuesAt(s, h))
             m == GroupAt(s, j)
         IN  [found |-> TRUE, group |-> SubSeq(s, m.g, m.e - 1),
              start |-> m.g, stop |-> m.e - 1]

\* ------------------------------------------------ the splitter (lines 41-49)

\* a match of \),\s*\n\s*\( starting at index i: the index of its "(", else 0
SepMatchEnd(s, i) ==
    IF i + 1 <= Len(s) /\ s[i] = ")" /\ s[i + 1] = ","
    THEN LET j == SkipWS(s, i + 2)
         IN  IF /\ j <= Len(s)
                /\ s[j] = "("
                /\ \E k \in (i + 2)..(j - 1) : s[k] = NL
             THEN j ELSE 0
    ELSE 0

RECURSIVE ReSplit(_, _, _)
\* re.split(r"\),\s*\n\s*\(", s): the pieces between the matches, scanning
\* from index i with the current piece starting at index start
ReSplit(s, start, i) ==
    IF i > Len(s) THEN << SubSeq(s, start, Len(s)) >>
    ELSE LET e == SepMatchEnd(s, i)
         IN  IF e > 0
             THEN << SubSeq(s, start, i - 1) >> \o ReSplit(s, e + 1, e + 1)
             ELSE ReSplit(s, start, i + 1)

\* line 41
SplitRows(values_str) == ReSplit(values_str, 1, 1)

\* CleanRow without lines 46-49: the parentheses are left on the row
CleanRowKeepParens(r) == Strip(r)

\* lines 45-49: strip, then drop one leading "(" and one trailing ")"
CleanRow(r) ==
    LET a == Strip(r)
        b == IF StartsWith(a, "(") THEN Tail(a) ELSE a
    IN  IF EndsWith(b, ")") THEN SubSeq(b, 1, Len(b) - 1) ELSE b

\* ------------------------------------------- the identifier (lines 56-62)

RECURSIVE NextQuote(_, _)
\* the TLA+ index of the first quote at or after index i, 0 when none
NextQuote(s, i) ==
    IF i > Len(s) THEN 0
    ELSE IF s[i] = Q THEN i
    ELSE NextQuote(s, i + 1)

\* IdMatch with r"'([^']*)'" for the pattern: the empty identifier '' matches
IdMatchStar(row) ==
    LET k == NextQuote(row, 2)
    IN  IF StartsWith(row, Q) /\ k >= 2
        THEN [ok |-> TRUE, group |-> SubSeq(row, 2, k - 1), endpos |-> k]
        ELSE [ok |-> FALSE, group |-> <<>>, endpos |-> 0]

\* re.match(r"'([^']+)'", row): group(1) and end() (a Python index)
IdMatch(row) ==
    LET k == NextQuote(row, 2)
    IN  IF StartsWith(row, Q) /\ k >= 3
        THEN [ok |-> TRUE, group |-> SubSeq(row, 2, k - 1), endpos |-> k]
        ELSE [ok |-> FALSE, group |-> <<>>, endpos |-> 0]

\* line 62: row[id_match.end():].lstrip(', ')
RestOf(row, m) == LStrip(From(row, m.endpos), {",", " "})

\* ------------------------------------------ the payload scan (lines 69-79)

RECURSIVE ScanEnd(_, _)
\* the while loop of lines 70-79 from cursor end_pos (a Python index): the
\* value of end_pos when the loop is left
ScanEnd(rest, end_pos) ==
    IF ~(end_pos < Len(rest)) THEN end_pos
    ELSE LET char == rest[end_pos + 1]
         IN  IF char = Q /\ (end_pos + 1 >= Len(rest) \/ rest[end_pos + 2] # Q)
             THEN end_pos
             ELSE IF char = Q /\ rest[end_pos + 2] = Q
                  THEN ScanEnd(rest, end_pos + 2)
                  ELSE ScanEnd(rest, end_pos + 1)

\* line 81: rest[1:end_pos].replace("''", "'")
JsonStr(rest) == ReplaceQQ(Slice(rest, 1, ScanEnd(rest, 1)))

\* ------------------------------------------------- json.loads / json.dumps
\* The decoder of the standard library over the alphabet of the model:
\* objects, arrays, strings without escapes (the alphabet has no backslash),
\* unsigned integers of the digits 1 and 2, and the literals null, true and
\* false.  A decoded value is kept as the text json.dumps writes for it
\* (separators ", " and ": ", a repeated key keeps its first place and its
\* last value), so JsonLoads is json.dumps(json.loads(s)).

JFail == [ok |-> FALSE, pos |-> 0, out |-> <<>>]

JOk(p, o) == [ok |-> TRUE, pos |-> p, out |-> o]

\* json.dumps({})
EmptyMapping == << "{", "}" >>

RECURSIVE SkipJWS(_, _)
SkipJWS(s, i) ==
    IF i <= Len(s) /\ s[i] \in JWS THEN SkipJWS(s, i + 1) ELSE i

RECURSIVE ScanString(_, _)
\* py_scanstring (strict): the index of the closing double quote, 0 when the
\* string is unterminated or holds a control character
ScanString(s, i) ==
    IF i > Len(s) THEN 0
    ELSE IF s[i] = DQ THEN i
    ELSE IF s[i] \in {NL, TAB, CR} THEN 0
    ELSE ScanString(s, i + 1)

\* a string starting at the double quote at index i
ParseString(s, i) ==
    LET j == ScanString(s, i + 1)
    IN  IF j = 0 THEN JFail ELSE JOk(j + 1, SubSeq(s, i, j))

RECURSIVE DigitsEnd(_, _)
DigitsEnd(s, i) ==
    IF i <= Len(s) /\ s[i] \in Digits THEN DigitsEnd(s, i + 1) ELSE i

IsLiteral(s, i, w) ==
    i + Len(w) - 1 <= Len(s) /\ SubSeq(s, i, i + Len(w) - 1) = w

JLiterals == { <<"n", "u", "l", "l">>, <<"t", "r", "u", "e">>,
               <<"f", "a", "l", "s", "e">> }

RECURSIVE PutMember(_, _, _)
\* dict(pairs): a repeated key keeps its place and takes the later value
PutMember(acc, k, v) ==
    IF Len(acc) = 0 THEN << <<k, v>> >>
    ELSE IF acc[1][1] = k THEN << <<k, v>> >> \o Tail(acc)
    ELSE << acc[1] >> \o PutMember(Tail(acc), k, v)

RECURSIVE DumpMembers(_)
DumpMembers(acc) ==
    IF Len(acc) = 0 THEN <<>>
    ELSE acc[1][1] \o <<":", " ">> \o acc[1][2]
         \o (IF Len(acc) > 1 THEN <<",", " ">> ELSE <<>>)
         \o DumpMembers(Tail(acc))

RECURSIVE DumpElements(_)
DumpElements(acc) ==
    IF Len(acc) = 0 THEN <<>>
    ELSE acc[1] \o (IF Len(acc) > 1 THEN <<",", " ">> ELSE <<>>)
         \o DumpElements(Tail(acc))

RECURSIVE ParseValue(_, _)
RECURSIVE ParseMembers(_, _, _)
RECURSIVE ParseElements(_, _, _)

\* JSONObject after "{" at index i - 1
ParseObject(s, i) ==
    LET n == SkipJWS(s, i)
    IN  IF n <= Len(s) /\ s[n] = "}" THEN JOk(n + 1, EmptyMapping)
        ELSE ParseMembers(s, n, <<>>)

\* JSONArray after "[" at index i - 1
ParseArray(s, i) ==
    LET n == SkipJWS(s, i)
    IN  IF n <= Len(s) /\ s[n] = "]" THEN JOk(n + 1, << "[", "]" >>)
        ELSE ParseElements(s, n, <<>>)

\* scan_once at index i
ParseValue(s, i) ==
    IF i > Len(s) THEN JFail
    ELSE IF s[i] = DQ THEN ParseString(s, i)
    ELSE IF s[i] = "{" THEN ParseObject(s, i + 1)
    ELSE IF s[i] = "[" THEN ParseArray(s, i + 1)
    ELSE IF \E w \in JLiterals : IsLiteral(s, i, w)
         THEN LET w == CHOOSE x \in JLiterals : IsLiteral(s, i, x)
              IN  JOk(i + Len(w), w)
    ELSE IF s[i] \in Digits
         THEN JOk(DigitsEnd(s, i), SubSeq(s, i, DigitsEnd(s, i) - 1))
    ELSE JFail

\* the members of an object, the next key expected at index i
ParseMembers(s, i, acc) ==
    IF i > Len(s) \/ s[i] # DQ THEN JFail
    ELSE LET key == ParseString(s, i)
         IN  IF ~key.ok THEN JFail
             ELSE LET c == SkipJWS(s, key.pos)
                  IN  IF c > Len(s) \/ s[c] # ":" THEN JFail
                      ELSE LET val == ParseValue(s, SkipJWS(s, c + 1))
                           IN  IF ~val.ok THEN JFail
                               ELSE LET n == SkipJWS(s, val.pos)
                                        acc2 == PutMember(acc, key.out, val.out)
                                    IN  IF n > Len(s) THEN JFail
                                        ELSE IF s[n] = "}"
                                             THEN JOk(n + 1, <<"{">> \o DumpMembers(acc2) \o <<"}">>)
                                        ELSE IF s[n] = ","
                                             THEN ParseMembers(s, SkipJWS(s, n + 1), acc2)
                                        ELSE JFail

\* the elements of an array, the next value expected at index i
ParseElements(s, i, acc) ==
    LET val == ParseValue(s, i)
    IN  IF ~val.ok THEN JFail
        ELSE LET n == SkipJWS(s, val.pos)
                 acc2 == Append(acc, val.out)
             IN  IF n > Len(s) THEN JFail
                 ELSE IF s[n] = "]"
                      THEN JOk(n + 1, <<"[">> \o DumpElements(acc2) \o <<"]">>)
                 ELSE IF s[n] = ","
                      THEN ParseElements(s, SkipJWS(s, n + 1), acc2)
                 ELSE JFail

\* json.loads(s): one value between optional whitespace, nothing after it;
\* ok is FALSE where json.loads raises
JsonLoads(s) ==
    LET v == ParseValue(s, SkipJWS(s, 1))
    IN  IF v.ok /\ SkipJWS(s, v.pos) > Len(s)
        THEN [ok |-> TRUE, out |-> v.out]
        ELSE [ok |-> FALSE, out |-> <<>>]

\* JsonData without the fallback of lines 85-86: what did not parse is passed
\* on as null
JsonDataNoFallback(rest) ==
    IF StartsWith(rest, Q)
    THEN LET v == JsonLoads(JsonStr(rest))
         IN  IF v.ok THEN v.out ELSE <<"n", "u", "l", "l">>
    ELSE EmptyMapping

\* lines 65-88: the data field of the row, as json.dumps writes it (line 95)
JsonData(rest) ==
    IF StartsWith(rest, Q)
    THEN LET v == JsonLoads(JsonStr(rest))
         IN  IF v.ok THEN v.out ELSE EmptyMapping
    ELSE EmptyMapping

\* ------------------------------------------------------- the tweets table

Ids(table) == { r[1] : r \in table }

\* Upsert without ON CONFLICT (id) DO NOTHING, on a table without the key
UpsertAlways(table, id, data) == table \cup { <<id, data>> }

\* Upsert with ON CONFLICT (id) DO UPDATE: the row of the identifier is
\* replaced
UpsertReplace(table, id, data) ==
    { r \in table : r[1] # id } \cup { <<id, data>> }

\* lines 91-95: INSERT INTO tweets (id, data) ... ON CONFLICT (id) DO NOTHING
Upsert(table, id, data) ==
    IF id \in Ids(table) THEN table ELSE table \cup { <<id, data>> }

\* ------------------------------------------------------------- the inputs
\* A dump is written from a list of tuples.  A tuple is [id, data, shape]:
\* shape "ok" is 'id','data' with both fields quoted as SQL quotes them (a
\* quote inside a field doubled); "open" is the same with the closing quote
\* of the data field missing; "noid" has the bare token NULL for its id.

RECURSIVE DoubleQuotes(_)
DoubleQuotes(x) ==
    IF Len(x) = 0 THEN <<>>
    ELSE (IF x[1] = Q THEN <<Q, Q>> ELSE <<x[1]>>) \o DoubleQuotes(Tail(x))

QuoteFree(x) == \A k \in 1..Len(x) : x[k] # Q

SqlQuote(x) == <<Q>> \o DoubleQuotes(x) \o <<Q>>

Render(t) ==
    CASE t.shape = "ok" -> SqlQuote(t.id) \o <<",">> \o SqlQuote(t.data)
      [] t.shape = "open" -> SqlQuote(t.id) \o <<",">> \o <<Q>> \o DoubleQuotes(t.data)
      [] t.shape = "noid" -> <<"N", "U", "L", "L", ",">> \o SqlQuote(t.data)

TuplePool ==
    { [id |-> <<"a">>, data |-> <<"[", "1", "]">>, shape |-> "ok"],
      [id |-> <<"c">>, data |-> <<"\"", "a", ",", " ", "'", "s", "\"">>, shape |-> "ok"],
      [id |-> <<"a">>, data |-> <<"[", "2", "]">>, shape |-> "open"],
      [id |-> <<"a", Q, "b">>, data |-> EmptyMapping, shape |-> "ok"],
      [id |-> <<>>, data |-> EmptyMapping, shape |-> "noid"],
      [id |-> <<"c">>, data |-> <<"x", ")", ",", "\n", "(", "y">>, shape |-> "ok"] }

\* how pg_dump separates the tuples (line 40), and the same without the
\* line break
SepDump == << ")", ",", NL, TAB, "(" >>

SepPlain == << ")", ",", "(" >>

Seps == { SepDump, SepPlain }

RECURSIVE JoinTuples(_, _)
JoinTuples(ts, sep) ==
    IF Len(ts) = 1 THEN Render(ts[1])
    ELSE Render(ts[1]) \o sep \o JoinTuples(Tail(ts), sep)

\* the VALUES list: (A),(B),(C)
TupleList(ts, sep) == <<"(">> \o JoinTuples(ts, sep) \o <<")">>

Frames == { "end", "next", "none" }

\* the dump file: the tweets statement last in the file, followed by another
\* statement, or absent; "select": followed by a statement that line 27 does
\* not name and then by one it names; "cut": the file ends before the ";" of
\* the statement
Blob(in) ==
    LET list == TupleList(in.tuples, in.sep)
        head == << "INSERT", "TWEETS", " ", "(", "i", ")", " ", "VALUES", NL, TAB >>
        other == << "INSERT", "OTHER", " ", "VALUES", " " >>
    IN  CASE in.frame = "end" -> head \o list \o << ";", NL >>
          [] in.frame = "next" ->
                head \o list \o << ";", NL, NL >> \o other \o << "(", "x", ")", ";", NL >>
          [] in.frame = "none" -> other \o list \o << ";", NL >>
          [] in.frame = "select" ->
                head \o list \o << ";", NL, NL, "SELECT", "(", "x", ")", ";", NL, NL >>
                     \o other \o << "(", "x", ")", ";", NL >>
          [] in.frame = "cut" -> head \o list \o << NL >>

TupleSeqs == UNION { [1..n -> TuplePool] : n \in 1..MaxTuples }

\* The CSV file of restore-content.py, as csv.DictReader yields it: each row
\* with its id, version and metadata columns.  The other columns are passed
\* to the INSERT as they are (or as None) and decide nothing.
CsvPool ==
    { [id |-> <<"a">>, version |-> <<"1">>, metadata |-> EmptyMapping],
      [id |-> <<"c">>, version |-> <<"x">>, metadata |-> <<"[", "1", "]">>],
      [id |-> <<"a">>, version |-> <<>>, metadata |-> <<"\"", "{", "\"", "\"", "k", "\"", "\"", ":", "1", "}", "\"">>],
      [id |-> <<"c">>, version |-> <<"2">>, metadata |-> <<"x">>] }

CsvSeqs == UNION { [1..n -> CsvPool] : n \in 1..MaxCsvRows }

Inputs ==
    { in \in [script : {"tweets"}, tuples : TupleSeqs, sep : Seps,
              frame : Frames, csv : {<<>>}] :
        /\ Len(in.tuples) = 1 => in.sep = SepDump
        /\ in.frame = "none" => Len(in.tuples) = 1 }
    \cup [script : {"content"}, tuples : {<<>>}, sep : {SepDump},
          frame : {"csv"}, csv : CsvSeqs]

\* the table before the first run: empty, holding a row for "a" (with the
\* data the script writes for an empty payload), or refusing rows for "c"
Destinations(script) ==
    LET old == IF script = "tweets" THEN EmptyMapping
               ELSE <<"2", "|">> \o EmptyMapping
    IN  { [db |-> {}, rejects |-> {}],
          [db |-> { << <<"a">>, old >> }, rejects |-> {}],
          [db |-> {}, rejects |-> { <<"c">> }] }

\* ------------------------------------- restore-content.py: the row fields

\* what Python takes for false among the decoded values (as json.dumps
\* writes them)
Falsy == { EmptyMapping, <<"[", "]">>, <<DQ, DQ>>, <<"n", "u", "l", "l">>,
           <<"f", "a", "l", "s", "e">> }

RECURSIVE ReplaceDQDQ(_)
\* value.replace('""', '"')
ReplaceDQDQ(s) ==
    IF Len(s) = 0 THEN <<>>
    ELSE IF Len(s) >= 2 /\ s[1] = DQ /\ s[2] = DQ
         THEN <<DQ>> \o ReplaceDQDQ(SubSeq(s, 3, Len(s)))
         ELSE <<s[1]>> \o ReplaceDQDQ(Tail(s))

\* lines 25-43
parse_json_field(value) ==
    IF Len(value) = 0 \/ value = EmptyMapping THEN <<"[", "]">>
    ELSE IF JsonLoads(value).ok THEN JsonLoads(value).out
    ELSE IF /\ StartsWith(value, DQ)
            /\ EndsWith(value, DQ)
            /\ JsonLoads(ReplaceDQDQ(Slice(value, 1, Len(value) - 1))).ok
         THEN JsonLoads(ReplaceDQDQ(Slice(value, 1, Len(value) - 1))).out
    ELSE <<"[", "]">>

\* line 62: parse_json_field(...) or {}
Metadata(row) ==
    IF parse_json_field(row.metadata) \in Falsy
    THEN EmptyMapping
    ELSE parse_json_field(row.metadata)

\* int(row['version']) raises ValueError: the text, without the whitespace
\* around it, is not a run of digits (the alphabet has no sign)
IntRaises(v) ==
    Len(Strip(v)) = 0 \/ \E k \in 1..Len(Strip(v)) : Strip(v)[k] \notin Digits

\* line 84: int(row['version']) if row['version'] else 1
Version(row) == IF Len(row.version) = 0 THEN <<"1">> ELSE Strip(row.version)

\* lines 83-115: the parameters of the INSERT after the id, as one text
ContentData(row) == Version(row) \o <<"|">> \o Metadata(row)

\* ------------------------------------------------------------ the scripts

VARIABLES
    input,       \* the file the script reads: [script, tuples, sep, frame, csv]
    content,     \* restore-tweets.py line 24: the text of the dump file
    db,          \* the table written to: a set of <<id, data>> rows
    rejects,     \* the identifiers whose INSERT the database refuses
    pc,          \* where the script is
    values_str,  \* restore-tweets.py line 33
    rows,        \* restore-tweets.py line 41; restore-content.py: the reader
    i,           \* restore-tweets.py line 43: the index of the next row
    inserted,    \* line 37 (52)
    errors,      \* line 38 (53)
    executed,    \* the parameters of every cur.execute of this run, in order
    out,         \* what this run has printed
    run,         \* which invocation of the script this is
    db0,         \* the table when this invocation started
    rest,        \* restore-tweets.py line 62, when the scan is run on its own
    end_pos,     \* line 69: the cursor of the scan
    read,        \* the indexes of rest the last iteration of the scan read
    iterations   \* the iterations of the loop of line 70 entered so far

\* the scan of lines 69-79 run on its own
scanvars == << rest, end_pos, read, iterations >>

vars == << input, content, db, rejects, pc, values_str, rows, i, inserted,
          errors, executed, out, run, db0, rest, end_pos, read, iterations >>

\* the scan is not running
NoScan == rest = <<>> /\ end_pos = 0 /\ read = {} /\ iterations = 0

\* where a script starts
Entry(in) == IF in.script = "tweets" THEN "search" ELSE "csvloop"

Init ==
    /\ input \in Inputs
    /\ content = IF input.script = "tweets" THEN Blob(input) ELSE <<>>
    /\ \E d \in Destinations(input.script) : db = d.db /\ rejects = d.rejects /\ db0 = d.db
    /\ pc = Entry(input)
    /\ values_str = <<>>
    /\ rows = input.csv
    /\ i = 0
    /\ inserted = 0
    /\ errors = 0
    /\ executed = <<>>
    /\ out = <<>>
    /\ run = 1
    /\ NoScan

\* restore-tweets.py lines 27-33, the statement found
Locate ==
    /\ UNCHANGED scanvars
    /\ pc = "search"
    /\ Search(content).found
    /\ values_str' = Search(content).group
    /\ pc' = "split"
    /\ UNCHANGED << input, content, db, rejects, rows, i, inserted, errors,
                    executed, out, run, db0 >>

\* NotFound without the exit(1) of line 31: the script goes on with the whole
\* file for a fragment
NotFoundGoesOn ==
    /\ UNCHANGED scanvars
    /\ pc = "search"
    /\ ~Search(content).found
    /\ out' = Append(out, <<"notfound", 0, 0>>)
    /\ values_str' = content
    /\ pc' = "split"
    /\ UNCHANGED << input, content, db, rejects, rows, i, inserted,
                    errors, executed, run, db0 >>

\* restore-tweets.py lines 29-31: print and exit(1)
NotFound ==
    /\ UNCHANGED scanvars
    /\ pc = "search"
    /\ ~Search(content).found
    /\ out' = Append(out, <<"notfound", 0, 0>>)
    /\ pc' = "failed"
    /\ UNCHANGED << input, content, db, rejects, values_str, rows, i, inserted,
                    errors, executed, run, db0 >>

\* restore-tweets.py lines 37-41
Split ==
    /\ UNCHANGED scanvars
    /\ pc = "split"
    /\ inserted' = 0
    /\ errors' = 0
    /\ rows' = SplitRows(values_str)
    /\ i' = 0
    /\ pc' = "loop"
    /\ UNCHANGED << input, content, db, rejects, values_str, executed, out,
                    run, db0 >>

\* restore-tweets.py lines 57-58: no identifier, continue
SkipRow ==
    /\ i' = i + 1
    /\ UNCHANGED << db, inserted, errors, executed, out, pc >>

\* lines 91-99 (66-119): the INSERT went through
Written(id, data, every) ==
    /\ db' = Upsert(db, id, data)
    /\ inserted' = inserted + 1
    /\ out' = IF (inserted + 1) % every = 0
              THEN Append(out, <<"progress", inserted + 1, 0>>)
              ELSE out
    /\ i' = i + 1
    /\ UNCHANGED << errors, pc >>

\* Except with the exception leaving the loop: the run ends at the first
\* failure
ExceptAbort(limit, rowno) ==
    /\ errors' = errors + 1
    /\ out' = IF errors + 1 <= limit
              THEN Append(out, <<"error", rowno, 0>>)
              ELSE out
    /\ pc' = "failed"
    /\ UNCHANGED << db, inserted, i >>

\* Except without the cutoff of line 103 (122): every failure is printed
ExceptPrintAll(limit, rowno) ==
    /\ errors' = errors + 1
    /\ out' = Append(out, <<"error", rowno, 0>>)
    /\ i' = i + 1
    /\ UNCHANGED << db, inserted, pc >>

\* lines 101-105 (120-125): except Exception, count, print the first ones,
\* continue; rowno is the row number the message gives
Except(limit, rowno) ==
    /\ errors' = errors + 1
    /\ out' = IF errors + 1 <= limit
              THEN Append(out, <<"error", rowno, 0>>)
              ELSE out
    /\ i' = i + 1
    /\ UNCHANGED << db, inserted, pc >>

\* restore-tweets.py lines 43-105: one iteration of the loop over rows
ProcessRow ==
    /\ UNCHANGED scanvars
    /\ pc = "loop"
    /\ i < Len(rows)
    /\ LET row == CleanRow(rows[i + 1])
           id_match == IdMatch(row)
           tweet_id == id_match.group
           json_data == JsonData(RestOf(row, id_match))
       IN  IF ~id_match.ok
           THEN SkipRow
           ELSE /\ executed' = Append(executed, <<tweet_id, json_data>>)
                /\ IF tweet_id \in rejects
                   THEN Except(ErrorSampleLimit, i)
                   ELSE Written(tweet_id, json_data, ProgressEvery)
    /\ UNCHANGED << input, content, rejects, values_str, rows, run, db0 >>

\* restore-tweets.py lines 107-110
Summary ==
    /\ UNCHANGED scanvars
    /\ pc = "loop"
    /\ i = Len(rows)
    /\ out' = Append(out, <<"done", inserted, errors>>)
    /\ pc' = "done"
    /\ UNCHANGED << input, content, db, rejects, values_str, rows, i, inserted,
                    errors, executed, run, db0 >>

\* restore-content.py lines 57-125: one row of the reader
ContentRow ==
    /\ UNCHANGED scanvars
    /\ pc = "csvloop"
    /\ i < Len(rows)
    /\ LET row == rows[i + 1]
       IN  IF IntRaises(row.version) /\ Len(row.version) > 0
           THEN \* line 84 raised before the INSERT
                /\ Except(ContentErrorSampleLimit, inserted + errors + 1)
                /\ UNCHANGED executed
           ELSE /\ executed' = Append(executed, <<row.id, ContentData(row)>>)
                /\ IF row.id \in rejects
                   THEN Except(ContentErrorSampleLimit, inserted + errors + 1)
                   ELSE Written(row.id, ContentData(row), ContentProgressEvery)
    /\ UNCHANGED << input, content, rejects, values_str, rows, run, db0 >>

\* restore-content.py lines 127-130
ContentSummary ==
    /\ UNCHANGED scanvars
    /\ pc = "csvloop"
    /\ i = Len(rows)
    /\ out' = Append(out, <<"done", inserted, errors>>)
    /\ pc' = "done"
    /\ UNCHANGED << input, content, db, rejects, values_str, rows, i, inserted,
                    errors, executed, run, db0 >>

\* the script is run again on the same file and the same database
Rerun ==
    /\ UNCHANGED scanvars
    /\ pc \in {"done", "failed"}
    /\ run < MaxRuns
    /\ run' = run + 1
    /\ db0' = db
    /\ pc' = Entry(input)
    /\ values_str' = <<>>
    /\ rows' = input.csv
    /\ i' = 0
    /\ inserted' = 0
    /\ errors' = 0
    /\ executed' = <<>>
    /\ out' = <<>>
    /\ UNCHANGED << input, content, db, rejects >>

Next ==
    \/ Locate
    \/ NotFound
    \/ Split
    \/ ProcessRow
    \/ Summary
    \/ ContentRow
    \/ ContentSummary
    \/ Rerun

Spec == Init /\ [][Next]_vars

\* ------------------------------------ runs with many failing records
\* The same scripts on longer files written from fewer kinds of record, so
\* that a run meets more failing records than it prints messages for: a
\* dump of tuples the database takes ("a"), may refuse ("c") or that have
\* no identifier, and a CSV file of rows that are written, whose version is
\* no number, or that the database may refuse.

FailingTuplePool ==
    { t \in TuplePool :
        /\ t.shape \in {"ok", "noid"}
        /\ QuoteFree(t.id)
        /\ \A k \in 1..Len(t.data) : t.data[k] # NL }

FailingCsvPool == { r \in CsvPool : Len(r.version) > 0 }

FailingInputs ==
    { in \in [script : {"tweets"},
              tuples : UNION { [1..n -> FailingTuplePool] : n \in 1..MaxFailingTuples },
              sep : {SepDump}, frame : {"end", "none"}, csv : {<<>>}] :
        in.frame = "none" => Len(in.tuples) = 1 }
    \cup [script : {"content"}, tuples : {<<>>}, sep : {SepDump}, frame : {"csv"},
          csv : UNION { [1..n -> FailingCsvPool] : n \in 1..MaxFailingCsvRows }]

FailingInit ==
    /\ input \in FailingInputs
    /\ content = IF input.script = "tweets" THEN Blob(input) ELSE <<>>
    /\ \E d \in Destinations(input.script) : db = d.db /\ rejects = d.rejects /\ db0 = d.db
    /\ pc = Entry(input)
    /\ values_str = <<>>
    /\ rows = input.csv
    /\ i = 0
    /\ inserted = 0
    /\ errors = 0
    /\ executed = <<>>
    /\ out = <<>>
    /\ run = 1
    /\ NoScan

FailingSpec == FailingInit /\ [][Next]_vars

\* --------------------------------------------- the statement in the file
\* restore-tweets.py alone, on dumps that differ in what the quoted fields
\* hold (the text "; INSERT", the word VALUES, an empty identifier '') and in
\* what follows the statement in the file.

FragmentTuplePool ==
    { [id |-> <<"a">>, data |-> <<"[", "1", "]">>, shape |-> "ok"],
      [id |-> <<"c">>, data |-> <<DQ, "x", ";", " ", "INSERT", DQ>>, shape |-> "ok"],
      [id |-> <<"c">>, data |-> <<DQ, "VALUES", DQ>>, shape |-> "ok"],
      [id |-> <<>>, data |-> <<"[", "1", "]">>, shape |-> "ok"] }

FragmentFrames == Frames \cup { "select", "cut" }

FragmentInputs ==
    [script : {"tweets"},
     tuples : UNION { [1..n -> FragmentTuplePool] : n \in 1..MaxFragmentTuples },
     sep : {SepDump}, frame : FragmentFrames, csv : {<<>>}]

FragmentInit ==
    /\ input \in FragmentInputs
    /\ content = Blob(input)
    /\ \E d \in Destinations(input.script) : db = d.db /\ rejects = d.rejects /\ db0 = d.db
    /\ pc = Entry(input)
    /\ values_str = <<>>
    /\ rows = input.csv
    /\ i = 0
    /\ inserted = 0
    /\ errors = 0
    /\ executed = <<>>
    /\ out = <<>>
    /\ run = 1
    /\ NoScan

\* the steps of restore-tweets.py
TweetsNext ==
    \/ Locate
    \/ NotFound
    \/ Split
    \/ ProcessRow
    \/ Summary
    \/ Rerun

FragmentSpec == FragmentInit /\ [][TweetsNext]_vars

\* ------------------------------------ the payload scan, step by step
\* The loop of lines 69-79 run on its own, one iteration a step, on every
\* text of quotes and other characters that starts with a quote (line 65).

ScanTexts ==
    { <<Q>> \o t : t \in UNION { [1..n -> {Q, "x"}] : n \in 0..(MaxScanLen - 1) } }

ScanInit ==
    /\ rest \in ScanTexts
    /\ end_pos = 1
    /\ read = {}
    /\ iterations = 0
    /\ pc = "scan"
    /\ input = [script |-> "tweets", tuples |-> <<>>, sep |-> SepDump,
                frame |-> "end", csv |-> <<>>]
    /\ content = <<>>
    /\ db = {} /\ rejects = {} /\ db0 = {}
    /\ values_str = <<>>
    /\ rows = <<>>
    /\ i = 0
    /\ inserted = 0
    /\ errors = 0
    /\ executed = <<>>
    /\ out = <<>>
    /\ run = 1

\* ScanStep without the test end_pos + 1 >= len(rest) of line 72: the
\* character after a quote is always looked at
ScanStepUnguarded ==
    /\ pc = "scan"
    /\ end_pos < Len(rest)
    /\ iterations' = iterations + 1
    /\ LET char == rest[end_pos + 1]
           after == IF end_pos + 1 < Len(rest) THEN rest[end_pos + 2] ELSE ""
       IN  IF char = Q /\ after # Q
           THEN /\ read' = {end_pos, end_pos + 1}
                /\ end_pos' = end_pos
                /\ pc' = "scanned"
           ELSE IF char = Q /\ after = Q
                THEN /\ read' = {end_pos, end_pos + 1}
                     /\ end_pos' = end_pos + 2
                     /\ pc' = pc
                ELSE /\ read' = {end_pos}
                     /\ end_pos' = end_pos + 1
                     /\ pc' = pc
    /\ UNCHANGED << input, content, db, rejects, values_str, rows, i, inserted,
                    errors, executed, out, run, db0, rest >>

\* lines 70-79: one iteration of the while loop; read holds the indexes of
\* rest the conditions of lines 71-75 looked at (or short-circuits)
ScanStep ==
    /\ pc = "scan"
    /\ end_pos < Len(rest)
    /\ iterations' = iterations + 1
    /\ LET char == rest[end_pos + 1]
           atEnd == end_pos + 1 >= Len(rest)
       IN  IF char = Q /\ (atEnd \/ rest[end_pos + 2] # Q)
           THEN \* line 74: break
                /\ read' = IF atEnd THEN {end_pos} ELSE {end_pos, end_pos + 1}
                /\ end_pos' = end_pos
                /\ pc' = "scanned"
           ELSE IF char = Q /\ rest[end_pos + 2] = Q
                THEN \* lines 77-78
                     /\ read' = {end_pos, end_pos + 1}
                     /\ end_pos' = end_pos + 2
                     /\ pc' = pc
                ELSE \* line 79
                     /\ read' = {end_pos}
                     /\ end_pos' = end_pos + 1
                     /\ pc' = pc
    /\ UNCHANGED << input, content, db, rejects, values_str, rows, i, inserted,
                    errors, executed, out, run, db0, rest >>

\* line 70: the condition of the while is false
ScanExit ==
    /\ pc = "scan"
    /\ ~(end_pos < Len(rest))
    /\ pc' = "scanned"
    /\ UNCHANGED << input, content, db, rejects, values_str, rows, i, inserted,
                    errors, executed, out, run, db0, scanvars >>

ScanNext ==
    \/ ScanStep
    \/ ScanExit

ScanSpec == ScanInit /\ [][ScanNext]_vars

\* ------------------------------------------------------------ the claims

Tweets == input.script = "tweets"

\* the number of tuples the dump was written from
NTuples == Len(input.tuples)

\* a tuple with both fields quoted and a payload that is valid JSON
WellFormed(t) == t.shape = "ok" /\ JsonLoads(t.data).ok

\* the record a well-formed tuple stands for
Expected(t) == << t.id, JsonLoads(t.data).out >>


ExecutedSet == { executed[k] : k \in 1..Len(executed) }

UniqueIds(table) == \A r1, r2 \in table : r1[1] = r2[1] => r1 = r2

\* the row the loop of restore-tweets.py takes next, and the one it took last
NextRow == CleanRow(rows[i + 1])

LastRow == CleanRow(rows[i])

C1_Case ==
    /\ Tweets
    /\ pc = "done"
    /\ input.frame # "none"
    /\ input.sep = SepDump
    /\ rejects = {}
    /\ NTuples = 3
    /\ WellFormed(input.tuples[1]) /\ QuoteFree(input.tuples[1].id)
    /\ input.tuples[2].shape = "open" /\ QuoteFree(input.tuples[2].id)
    /\ WellFormed(input.tuples[3]) /\ QuoteFree(input.tuples[3].id)

C2_Idempotent == (run >= 2 => db = db0) /\ UniqueIds(db)

\* a second run that issued at least two INSERTs against a table of at least
\* two rows has ended
C2_Witness ==
    run = 2 /\ pc = "done" /\ inserted >= 2 /\ Cardinality(db) >= 2

\* C3: at the end of a run, inserted is the number of rows the run added to
\* the table (0 for a second run over the same file).
C3_InsertedCountsNewRows ==
    pc = "done" => inserted = Cardinality(db \ db0)

\* C4: N >= 1 well-formed tuples with distinct identifiers, joined as
\* (..),(..), restored into an empty table: exactly the N records are written
\* and the run ends with inserted = N and errors = 0.  Stated for identifiers
\* without quotes and a database that refuses nothing.
C4_WellFormedRestored ==
    ( /\ Tweets
      /\ pc = "done"
      /\ run = 1
      /\ input.frame # "none"
      /\ NTuples = 1 \/ input.sep = SepPlain
      /\ db0 = {}
      /\ rejects = {}
      /\ \A k \in 1..NTuples :
            WellFormed(input.tuples[k]) /\ QuoteFree(input.tuples[k].id)
      /\ \A k, l \in 1..NTuples :
            input.tuples[k].id = input.tuples[l].id => k = l )
    => /\ db = { Expected(input.tuples[k]) : k \in 1..NTuples }
       /\ inserted = NTuples
       /\ errors = 0

RECURSIVE Depth(_, _)
\* the parenthesis depth after x, starting from depth d; -1 once it has gone
\* below zero
Depth(x, d) ==
    IF d < 0 \/ Len(x) = 0 THEN d
    ELSE Depth(Tail(x), IF x[1] = "(" THEN d + 1
                        ELSE IF x[1] = ")" THEN d - 1 ELSE d)

Balanced(x) == Depth(x, 0) = 0

\* C5: a fragment (A),(B),(C) whose quoted fields hold no unbalanced
\* parentheses is split into exactly the three tuple texts A, B, C.
C5_SplitsThreeTuples ==
    ( /\ Tweets
      /\ pc = "loop"
      /\ NTuples = 3
      /\ values_str = TupleList(input.tuples, input.sep)
      /\ \A k \in 1..3 :
            Balanced(input.tuples[k].id) /\ Balanced(input.tuples[k].data) )
    => [ k \in 1..Len(rows) |-> CleanRow(rows[k]) ]
         = [ k \in 1..3 |-> Render(input.tuples[k]) ]

\* C6: commas, parentheses and newlines inside a quoted field never make a
\* tuple boundary: as many rows are yielded as the fragment has tuples.
\* Stated for fragments separated as the dump separates them, every quoted
\* field closed.
C6_QuotedTextInert ==
    ( /\ Tweets
      /\ pc = "loop"
      /\ input.sep = SepDump
      /\ values_str = TupleList(input.tuples, input.sep)
      /\ \A k \in 1..NTuples : input.tuples[k].shape # "open" )
    => Len(rows) = NTuples

\* C7: a quoted field is extracted as its content with every doubled quote
\* made one, the cursor left one past its closing quote.  Stated for the row
\* the loop has just taken, when it is the text of a tuple with both fields
\* quoted: the identifier with its cursor (id_match.end()), and the payload.
C7_QuotedFieldExtracted ==
    ( Tweets /\ pc = "loop" /\ i >= 1 )
    => \A t \in TuplePool :
          ( t.shape = "ok" /\ LastRow = Render(t) )
          => LET m == IdMatch(LastRow)
             IN  /\ m.ok
                 /\ m.group = t.id
                 /\ m.endpos = Len(SqlQuote(t.id))
                 /\ JsonStr(RestOf(LastRow, m)) = t.data

\* the payload field of a row is {} or does not parse as JSON
Degenerate(field) ==
    \/ ~StartsWith(field, Q)
    \/ JsonStr(field) = EmptyMapping
    \/ ~JsonLoads(JsonStr(field)).ok

\* C8: a row with an extractable identifier whose payload field is {} or is
\* not JSON: the INSERT is issued with that identifier and the empty mapping,
\* and, the database taking it, the row counts in inserted and not in errors
\* and the table holds a row for the identifier.
C8_PayloadDegrades ==
    [][ ( /\ Tweets
          /\ pc = "loop"
          /\ i < Len(rows)
          /\ IdMatch(NextRow).ok
          /\ Degenerate(RestOf(NextRow, IdMatch(NextRow))) )
        => LET id == IdMatch(NextRow).group
           IN  /\ executed' = Append(executed, << id, EmptyMapping >>)
               /\ id \notin rejects
                  => /\ inserted' = inserted + 1
                     /\ errors' = errors
                     /\ id \in Ids(db')
                     /\ id \notin Ids(db) => << id, EmptyMapping >> \in db'
      ]_vars

\* the loop has just written a row whose payload does not parse, with the
\* empty mapping
C8_Witness ==
    /\ Tweets
    /\ pc = "loop"
    /\ i >= 1
    /\ errors = 0
    /\ IdMatch(LastRow).ok
    /\ ~JsonLoads(JsonStr(RestOf(LastRow, IdMatch(LastRow)))).ok
    /\ executed # <<>>
    /\ executed[Len(executed)] = << IdMatch(LastRow).group, EmptyMapping >>
    /\ << IdMatch(LastRow).group, EmptyMapping >> \in db
    /\ inserted = Len(executed)

\* C9: a row whose identifier cannot be extracted is not written and adds
\* exactly one to errors.
C9_IdFailureCounted ==
    [][ ( Tweets /\ pc = "loop" /\ i < Len(rows) /\ ~IdMatch(NextRow).ok )
        => /\ db' = db
           /\ executed' = executed
           /\ errors' = errors + 1
      ]_vars

\* the loop is at a row whose INSERT the database refuses
WriteFails ==
    \/ /\ pc = "loop"
       /\ i < Len(rows)
       /\ IdMatch(NextRow).ok
       /\ IdMatch(NextRow).group \in rejects
    \/ /\ pc = "csvloop"
       /\ i < Len(rows)
       /\ ~(IntRaises(rows[i + 1].version) /\ Len(rows[i + 1].version) > 0)
       /\ rows[i + 1].id \in rejects

RECURSIVE Issued(_)
\* the INSERTs a run issues when no failure stops it: one for every row of
\* the splitter with an identifier, one for every CSV row with a version
Issued(rs) ==
    IF Len(rs) = 0 THEN <<>>
    ELSE ( IF Tweets
           THEN LET row == CleanRow(rs[1])
                    m == IdMatch(row)
                IN  IF m.ok THEN << << m.group, JsonData(RestOf(row, m)) >> >>
                    ELSE <<>>
           ELSE IF IntRaises(rs[1].version) /\ Len(rs[1].version) > 0
                THEN <<>>
                ELSE << << rs[1].id, ContentData(rs[1]) >> >> )
         \o Issued(Tail(rs))

\* C10: a refused INSERT adds exactly one to errors, leaves inserted and the
\* table alone and keeps the loop going; every later row is still decoded and
\* its INSERT issued; and a run whose statement was found always reaches its
\* summary: in the loop a step is always possible (the next row, or the
\* summary after the last one), and every step takes the next row or prints
\* the summary, so the summary is printed after Len(rows) rows.
C10_WriteErrorsAbsorbed ==
    /\ [][ WriteFails
           => /\ errors' = errors + 1
              /\ inserted' = inserted
              /\ db' = db
              /\ pc' = pc
              /\ i' = i + 1 ]_vars
    /\ [](pc = "done" => i = Len(rows) /\ executed = Issued(rows))
    /\ [](pc \in {"loop", "csvloop"} => i <= Len(rows))
    /\ [][ /\ pc = "split" => pc' = "loop"
           /\ pc \in {"loop", "csvloop"}
              => \/ pc' = pc /\ i' = i + 1 /\ rows' = rows
                 \/ pc' = "done" /\ i = Len(rows) ]_vars

\* a run has ended in which an INSERT was refused and the INSERT of the next
\* row went through
C10_Witness ==
    /\ pc = "done"
    /\ errors >= 1
    /\ \E k \in 1..(Len(executed) - 1) :
          /\ executed[k][1] \in rejects
          /\ executed[k + 1][1] \notin rejects
          /\ executed[k + 1][1] \in Ids(db)

\* ---------------------------------------------------------------- C11

\* the error messages printed so far, in the order printed
IsErrorSample(m) == m[1] = "error"

Samples == SelectSeq(out, IsErrorSample)

\* the cutoff of the script that runs
SampleLimit == IF Tweets THEN ErrorSampleLimit ELSE ContentErrorSampleLimit

\* row k of the input (counted from 1) raises in the try block: the database
\* refuses its INSERT, or (CSV) its version is no number
Fails(k) ==
    IF Tweets
    THEN LET m == IdMatch(CleanRow(rows[k])) IN m.ok /\ m.group \in rejects
    ELSE \/ IntRaises(rows[k].version) /\ Len(rows[k].version) > 0
         \/ rows[k].id \in rejects

RECURSIVE FailedUpTo(_)
\* the failing rows among the first n, in input order
FailedUpTo(n) ==
    IF n = 0 THEN <<>>
    ELSE IF Fails(n) THEN Append(FailedUpTo(n - 1), n) ELSE FailedUpTo(n - 1)

\* the row a message names, counted from 1: "row {i}" counts from 0 in the
\* dump restore, "row {inserted + errors}" from 1 in the tabular restore
RowNamed(m) == IF Tweets THEN m[2] + 1 ELSE m[2]

\* C11: in every state of a run the number of error messages printed is
\* min(errors, N), N the cutoff of the script (3 for the dump, 5 for the CSV
\* file), and the k-th message names the k-th failing row of the input: the
\* messages are those of the first N failing records, in input order.
C11_BoundedErrorSampling ==
    /\ Len(Samples) = Min({errors, SampleLimit})
    /\ Len(Samples) <= Len(FailedUpTo(i))
    /\ \A k \in 1..Len(Samples) : RowNamed(Samples[k]) = FailedUpTo(i)[k]

\* a dump restore that met more failing rows than the cutoff, one of the
\* reported rows coming after a row that did not fail
C11_Witness ==
    /\ Tweets /\ pc = "done"
    /\ errors > ErrorSampleLimit
    /\ Len(Samples) = ErrorSampleLimit
    /\ Samples[ErrorSampleLimit][2] >= ErrorSampleLimit

\* ---------------------------------------------------------------- C12

\* line 27 finds no statement in the file
Unmatched == Tweets /\ ~Search(content).found

\* C12: when the tweets statement is not matched in the file, the run ends
\* in failure straight from the search: no row is split or decoded, nothing
\* is written to the database, the only output is the failure message (no
\* Inserted/Errors summary), and the failed run takes no further step.
C12_NotFoundIsFatal ==
    /\ [](Unmatched =>
            /\ pc \in {"search", "failed"}
            /\ values_str = <<>> /\ rows = <<>> /\ i = 0
            /\ executed = <<>> /\ db = db0
            /\ inserted = 0 /\ errors = 0
            /\ out = IF pc = "failed" THEN << <<"notfound", 0, 0>> >> ELSE <<>>)
    /\ [][ (Unmatched /\ pc = "search") => (pc' = "failed" /\ db' = db) ]_vars
    /\ [][ pc = "failed" => run' = run + 1 ]_vars

\* a file that holds the statement's header but not its end, restored twice
\* into a table that holds a row
C12_Witness ==
    /\ Unmatched /\ input.frame = "cut"
    /\ pc = "failed" /\ run = 2 /\ db # {}

\* ---------------------------------------------------------------- C13

\* C13: every record the dump restore writes has a non-empty identifier:
\* in every state, every INSERT issued so far and every row the run added to
\* the table carries an identifier of at least one character.
C13_IdentifierNeverEmpty ==
    Tweets =>
        /\ \A k \in 1..Len(executed) : Len(executed[k][1]) > 0
        /\ \A r \in db \ db0 : Len(r[1]) > 0

\* a finished run over a dump with a tuple whose identifier is '' and a
\* tuple that was written
C13_Witness ==
    /\ Tweets /\ pc = "done" /\ Len(rows) = NTuples
    /\ \E k \in 1..NTuples : input.tuples[k].id = <<>>
    /\ Len(executed) = NTuples - 1
    /\ db # db0

\* ---------------------------------------------------------------- C14

\* the payload field opens with a quote and the scan of lines 70-79 meets no
\* closing quote before the end of the row
Unterminated(field) == StartsWith(field, Q) /\ ScanEnd(field, 1) >= Len(field)

\* C14: a row with an extractable identifier whose payload field opens with
\* a quote that is never closed: the INSERT is issued with that identifier
\* and the empty mapping, never with a value decoded from the unterminated
\* text, and the loop goes on to the next row.
C14_UnterminatedPayloadEmpty ==
    [][ ( /\ Tweets
          /\ pc = "loop"
          /\ i < Len(rows)
          /\ IdMatch(NextRow).ok
          /\ Unterminated(RestOf(NextRow, IdMatch(NextRow))) )
        => /\ executed' = Append(executed, << IdMatch(NextRow).group, EmptyMapping >>)
           /\ pc' = pc
           /\ i' = i + 1
      ]_vars

\* ---------------------------------------------------------------- C15

\* the file holds the whole tweets statement, up to its ";"
HoldsStatement == Tweets /\ input.frame \in {"end", "next", "select"}

\* C15: when the file holds the tweets statement, whatever its quoted fields
\* hold and whatever follows it, the statement is found and the fragment is
\* the text from after VALUES to the statement's end: the list of all its
\* tuples, each in full, and no text of a later statement.
C15_FragmentBounds ==
    (HoldsStatement /\ pc # "search") =>
        /\ pc # "failed"
        /\ values_str = TupleList(input.tuples, input.sep)

\* ---------------------------------------------------------------- C16

\* this step issues an INSERT for an identifier the table already holds
WritesPresentId ==
    /\ Len(executed') = Len(executed) + 1
    /\ executed'[Len(executed')][1] \in Ids(db)

\* the INSERT number k of this run is the first one of its identifier
FirstOfItsId(k) == \A j \in 1..(k - 1) : executed[j][1] # executed[k][1]

\* C16: an INSERT for an identifier the table already holds (from before the
\* run or from an earlier row of the run) leaves the table as it is; no step
\* of any run changes or removes a stored row; and among the rows of a run
\* that share an identifier, one the table did not hold before the run and
\* whose INSERT the database takes, the row stored is the one of the first
\* of them in input order.
C16_ExistingRecordsUntouched ==
    /\ [][ WritesPresentId => db' = db ]_vars
    /\ [][ \A r \in db : r \in db' ]_vars
    /\ [](\A k \in 1..Len(executed) :
            ( /\ FirstOfItsId(k)
              /\ executed[k][1] \notin Ids(db0)
              /\ executed[k][1] \notin rejects )
            => /\ executed[k] \in db
               /\ \A r \in db : r[1] = executed[k][1] => r = executed[k])

\* a finished run that issued two INSERTs with one identifier and different
\* payloads into a table that did not hold it: the first is stored, the
\* second is not
C16_Witness ==
    /\ pc = "done"
    /\ \E j, k \in 1..Len(executed) :
          /\ j < k
          /\ FirstOfItsId(j)
          /\ executed[j][1] = executed[k][1]
          /\ executed[j][2] # executed[k][2]
          /\ executed[j][1] \notin Ids(db0)
          /\ executed[j] \in db
          /\ executed[k] \notin db

\* ---------------------------------------------------------------- C17

Scanning == pc \in {"scan", "scanned"}

\* C17: on every text that starts with a quote the scan is one bounded pass
\* forward: the cursor starts at 1; every iteration that stays in the loop
\* moves it forward by 1 or 2; every index of rest an iteration reads is
\* below len(rest); and the loop is left, after at most len(rest)
\* iterations, with 1 <= end_pos <= len(rest) (the value ScanEnd gives).
C17_ScanBoundedForward ==
    /\ [](Scanning =>
            /\ iterations = 0 => end_pos = 1
            /\ 1 <= end_pos /\ end_pos <= Len(rest)
            /\ iterations <= Len(rest)
            /\ \A k \in read : 0 <= k /\ k < Len(rest))
    /\ [](pc = "scanned" => end_pos = ScanEnd(rest, 1))
    /\ [][ (pc = "scan" /\ pc' = "scan")
             => end_pos' \in {end_pos + 1, end_pos + 2} ]_vars
    /\ [][ pc = "scan" => (iterations' = iterations + 1 \/ pc' = "scanned") ]_vars

\* the scan has passed a doubled quote and stopped on the closing quote,
\* with text left after it
C17_Witness ==
    /\ pc = "scanned"
    /\ end_pos < Len(rest) - 1
    /\ end_pos > iterations
    /\ read = {end_pos, end_pos + 1}


=============================================================================
